---- MODULE Spec2Model ----
(***************************************************************************)
(* A model of scripts/scraper.py: the batch planner split_batches, the     *)
(* item normaliser parse_youtube_response and the pagination loop of       *)
(* search_youtube, which calls YoutubeService.search_videos once per       *)
(* planned batch.                                                          *)
(*                                                                         *)
(* Three specifications share the module's variables:                      *)
(*   SpecPlan   split_batches applied to one pair (N, X)                   *)
(*   SpecParse  parse_youtube_response applied to one raw item             *)
(*   Spec       one run of search_youtube against a provider whose         *)
(*              answers are chosen nondeterministically                    *)
(***************************************************************************)
EXTENDS Integers, Sequences, FiniteSets

VARIABLES
    N, X, planPc, planResult,            \* split_batches: arguments, position, outcome
    item, parsePc, parseResult,          \* parse_youtube_response: argument, position, outcome
    pc,                                  \* search_youtube: position in the function body
    video_list_size,                     \* search_youtube: argument
    batch_sizes,                         \* search_youtube: local, the plan
    idx,                                 \* search_youtube: position of the for loop in batch_sizes
    page_token,                          \* search_youtube: local
    search_results,                      \* search_youtube: local, one list of records per page
    calls,                               \* history: every search_videos call and how it ended
    responses,                           \* history: every response search_videos received
    outcome                              \* what search_youtube handed to its caller

planVars   == <<N, X, planPc, planResult>>
parseVars  == <<item, parsePc, parseResult>>
driverVars == <<pc, video_list_size, batch_sizes, idx, page_token, search_results,
                calls, responses, outcome>>
vars       == <<planVars, parseVars, driverVars>>

(***************************************************************************)
(* Bounds of the model.                                                    *)
(***************************************************************************)
MaxN == 251         \* split_batches is applied to N in -MaxN .. MaxN
MaxX == 50          \* and to X in -MaxX .. MaxX
MaxTotal == 120     \* search_youtube is run with video_list_size in 0 .. MaxTotal

(***************************************************************************)
(* Python values.  None, strings, dicts and the page tokens are tagged so  *)
(* that a value of any kind can be told from None.  A dict is a function   *)
(* whose domain is the set of keys it holds; a key that is missing is not  *)
(* in the domain, a key that maps to null is in the domain and maps to     *)
(* None.  Str(s, n) is the n-th distinct string of the field named s.      *)
(***************************************************************************)
None == [t |-> "None"]

Str(s, n) == [t |-> "str", v |-> s, n |-> n]

Dict(d) == [t |-> "dict", d |-> d]

EmptyDict == Dict(<<>>)

\* How a function call ends: with a value, or by raising.
Return(v) == [kind |-> "return", value |-> v]

Raise(e) == [kind |-> "raise", exc |-> e]

NotCalled == [kind |-> "none"]

\* dict.get(k, default) on a dict held as the function d.
PyGet(d, k, default) == IF k \in DOMAIN d THEN d[k] ELSE default

\* [x] * k: a list of k copies of x, the empty list when k <= 0.
PyRepeat(x, k) == [i \in 1..k |-> x]

\* The sum of s[lo] .. s[hi], by halves.
RECURSIVE SumRange(_, _, _)
SumRange(s, lo, hi) ==
    IF lo > hi THEN 0
    ELSE IF lo = hi THEN s[lo]
    ELSE LET mid == (lo + hi) \div 2
         IN  SumRange(s, lo, mid) + SumRange(s, mid + 1, hi)

\* sum(s)
SumSeq(s) == SumRange(s, 1, Len(s))

(***************************************************************************)
(* split_batches                                                           *)
(***************************************************************************)
\* divmod(a, b) for b # 0: the quotient rounds towards minus infinity and the
\* remainder has the sign of b.
PyDivmod(a, b) == [quotient |-> a \div b, remainder |-> a - b * (a \div b)]

\* a planner that emits the remainder also when it is zero
BatchListAlwaysRemainder(size, quotient, remainder) ==
    PyRepeat(size, quotient) \o <<remainder>>

\* a planner that rounds the remainder up to a full batch
BatchListRoundedUp(size, quotient, remainder) ==
    PyRepeat(size, quotient + (IF remainder # 0 THEN 1 ELSE 0))

\* a planner that emits the remainder before the full batches
BatchListRemainderFirst(size, quotient, remainder) ==
    (IF remainder # 0 THEN <<remainder>> ELSE <<>>) \o PyRepeat(size, quotient)

\* [X] * quotient + ([remainder] if remainder else [])
BatchList(size, quotient, remainder) ==
    PyRepeat(size, quotient) \o (IF remainder # 0 THEN <<remainder>> ELSE <<>>)

split_batches(n, x) ==
    IF x = 0
    THEN Raise("ZeroDivisionError")
    ELSE LET dm == PyDivmod(n, x)
         IN  Return(BatchList(x, dm.quotient, dm.remainder))

(***************************************************************************)
(* parse_youtube_response                                                  *)
(***************************************************************************)
SnippetKeys == {"channelId", "publishedAt", "title", "description", "thumbnails",
                "channelTitle", "liveBroadcastContent", "publishTime"}

RecordKeys == {"etag", "kind", "videoId"} \cup SnippetKeys

\* response.get(k) where a dict is expected and nothing is given as the default
GetDictNoDefault(response, k) == PyGet(response, k, None)

\* response.get(k, {})
GetDict(response, k) == PyGet(response, k, EmptyDict)

\* a filter that keeps every key
FilterNoneKeepAll(d) == d

\* {k: v for k, v in d.items() if v is not None}
FilterNone(d) == [k \in {j \in DOMAIN d : d[j] # None} |-> d[k]]

\* the dict literal of lines 94-106; id and data are the two inner dicts
FlattenedData(response, id, data) ==
    [k \in RecordKeys |->
        CASE k = "etag"    -> PyGet(response, "etag", None)
          [] k = "kind"    -> PyGet(response, "kind", None)
          [] k = "videoId" -> PyGet(id, "videoId", None)
          [] OTHER         -> PyGet(data, k, None)]

\* Calling .get on a value that is not a dict (None) raises AttributeError.
parse_youtube_response(response) ==
    LET data == GetDict(response, "snippet")
        id   == GetDict(response, "id")
    IN  IF id.t # "dict" \/ data.t # "dict"
        THEN Raise("AttributeError")
        ELSE Return(FilterNone(FlattenedData(response, id.d, data.d)))

(***************************************************************************)
(* Raw items.  Each field of the item shape is missing, null or present.   *)
(***************************************************************************)
FieldStates == {"missing", "null", "value"}

DictStates == {"missing", "null", "dict"}

\* The value the provider gives field k of its n-th item.
SampleValue(k, n) ==
    IF k = "thumbnails"
    THEN Dict([u \in {"default"} |-> Str("url", n)])
    ELSE Str(k, n)

\* A dict over keys whose fields are in the states st.
LeafDict(keys, st, n) ==
    [k \in {j \in keys : st[j] # "missing"} |->
        IF st[k] = "null" THEN None ELSE SampleValue(k, n)]

\* The raw item whose etag and kind are in the states top, whose id is in
\* state idSt and holds videoId in state vidSt, and whose snippet is in state
\* snSt and holds its fields in the states sn.
RawItem(top, idSt, vidSt, snSt, sn, n) ==
    LET base == LeafDict({"etag", "kind"}, top, n)
        present == DOMAIN base
                   \cup (IF idSt # "missing" THEN {"id"} ELSE {})
                   \cup (IF snSt # "missing" THEN {"snippet"} ELSE {})
    IN  [k \in present |->
            CASE k = "id" ->
                    IF idSt = "null" THEN None
                    ELSE Dict(LeafDict({"videoId"}, [j \in {"videoId"} |-> vidSt], n))
              [] k = "snippet" ->
                    IF snSt = "null" THEN None ELSE Dict(LeafDict(SnippetKeys, sn, n))
              [] OTHER -> base[k]]

(***************************************************************************)
(* SpecPlan: split_batches(N, X)                                           *)
(***************************************************************************)
DriverIdle ==
    /\ pc = "idle"
    /\ video_list_size = 0
    /\ batch_sizes = <<>>
    /\ idx = 0
    /\ page_token = None
    /\ search_results = <<>>
    /\ calls = <<>>
    /\ responses = <<>>
    /\ outcome = NotCalled

PlanIdle ==
    /\ N = 0
    /\ X = 1
    /\ planPc = "idle"
    /\ planResult = NotCalled

ParseIdle ==
    /\ item = <<>>
    /\ parsePc = "idle"
    /\ parseResult = NotCalled

InitPlan ==
    /\ N \in -MaxN .. MaxN
    /\ X \in -MaxX .. MaxX
    /\ planPc = "call"
    /\ planResult = NotCalled
    /\ ParseIdle
    /\ DriverIdle

PlanCall ==
    /\ planPc = "call"
    /\ planResult' = split_batches(N, X)
    /\ planPc' = "done"
    /\ UNCHANGED <<N, X, parseVars, driverVars>>

NextPlan == PlanCall

SpecPlan == InitPlan /\ [][NextPlan]_vars

(***************************************************************************)
(* SpecParse: parse_youtube_response(item)                                 *)
(***************************************************************************)
InitParse ==
    /\ \E top \in [{"etag", "kind"} -> FieldStates],
          idSt \in DictStates, vidSt \in FieldStates,
          snSt \in DictStates, sn \in [SnippetKeys -> FieldStates] :
            /\ idSt # "dict" => vidSt = "missing"
            /\ snSt # "dict" => \A k \in SnippetKeys : sn[k] = "missing"
            /\ item = RawItem(top, idSt, vidSt, snSt, sn, 0)
    /\ parsePc = "call"
    /\ parseResult = NotCalled
    /\ PlanIdle
    /\ DriverIdle

ParseCall ==
    /\ parsePc = "call"
    /\ parseResult' = parse_youtube_response(item)
    /\ parsePc' = "done"
    /\ UNCHANGED <<item, planVars, driverVars>>

NextParse == ParseCall

SpecParse == InitParse /\ [][NextParse]_vars

(***************************************************************************)
(* search_youtube and YoutubeService.search_videos                         *)
(***************************************************************************)
MAX_YOUTUBE_API_RESULTS == 50

\* chain(*reversed(lists))
ChainReversed(lists) ==
    LET RECURSIVE rev(_)
        rev(ls) == IF ls = <<>> THEN <<>> ELSE rev(Tail(ls)) \o Head(ls)
    IN  rev(lists)

\* list(chain(*lists)): the lists joined in order
Chain(lists) ==
    LET RECURSIVE cat(_)
        cat(ls) == IF ls = <<>> THEN <<>> ELSE Head(ls) \o cat(Tail(ls))
    IN  cat(lists)

\* a request that never passes the page token on
SearchRequestNoToken(maxResults, pageToken) ==
    [maxResults |-> maxResults, pageToken |-> None]

\* The arguments search_videos hands to search().list (the search term and the
\* publishedAfter bound are the same in every call of a run and are left out).
SearchRequest(maxResults, pageToken) ==
    [maxResults |-> maxResults, pageToken |-> pageToken]

\* search_response.get("nextPageToken")
NextPageToken(search_response) == PyGet(search_response, "nextPageToken", None)

\* a loop that also stops once the provider returned no token
LoopExhaustedOrNoToken(i, plan, token) == i > Len(plan) \/ token = None

\* The for loop over batch_sizes is over once every element was taken.
LoopExhausted(i, plan, token) == i > Len(plan)

\* The provider's n-th item.  Items follow the item shape of the search
\* response with fields left out or null, by turns: every field present; no
\* description; a null title and no videoId; an etag only; nothing at all.
\* What an item holds under id and snippet is a dict, and every response holds
\* an items list: the provider keeps to the shape of a search response.  (An
\* item with a null id or snippet is parsed under SpecParse.)
ProviderItem(n) ==
    LET all == [k \in SnippetKeys |-> "value"]
        top == [k \in {"etag", "kind"} |-> "value"]
        none == [k \in SnippetKeys |-> "missing"]
    IN  CASE n % 5 = 1 -> RawItem(top, "dict", "value", "dict", all, n)
          [] n % 5 = 2 -> RawItem(top, "dict", "value", "dict",
                                  [all EXCEPT !["description"] = "missing"], n)
          [] n % 5 = 3 -> RawItem(top, "dict", "missing", "dict",
                                  [all EXCEPT !["title"] = "null"], n)
          [] n % 5 = 4 -> RawItem([top EXCEPT !["kind"] = "missing"],
                                  "missing", "missing", "missing", none, n)
          [] OTHER     -> RawItem([k \in {"etag", "kind"} |-> "missing"],
                                  "missing", "missing", "missing", none, n)

\* The provider's catalogue.
MaxItems == MaxTotal + (MaxTotal \div MAX_YOUTUBE_API_RESULTS) + 1

ProviderItems == [n \in 1..MaxItems |-> ProviderItem(n)]

\* How many items the provider has returned so far.
Served == SumSeq([i \in 1..Len(responses) |-> Len(responses[i]["items"])])

\* The item counts the provider may answer a request for size items with:
\* none, one fewer, as many, one more.
ItemCounts(size) == {c \in {0, size - 1, size, size + 1} : c >= 0}

\* A search response: count items, and a fresh nextPageToken when hasToken.
SearchResponse(count, hasToken) ==
    LET served == Served
        items == [j \in 1..count |-> ProviderItems[served + j]]
    IN  IF hasToken
        THEN [k \in {"items", "nextPageToken"} |->
                IF k = "items" THEN items ELSE Str("pageToken", Len(calls) + 1)]
        ELSE [k \in {"items"} |-> items]

Init ==
    /\ pc = "start"
    /\ video_list_size \in 0 .. MaxTotal
    /\ batch_sizes = <<>>
    /\ idx = 0
    /\ page_token = None
    /\ search_results = <<>>
    /\ calls = <<>>
    /\ responses = <<>>
    /\ outcome = NotCalled
    /\ PlanIdle
    /\ ParseIdle

\* Lines 131-136: the plan and the empty accumulators.  With an empty plan the
\* loop body never runs and line 148 returns the empty list.
Begin ==
    /\ pc = "start"
    /\ LET plan == split_batches(video_list_size, MAX_YOUTUBE_API_RESULTS)
       IN  IF plan.kind = "raise"
           THEN /\ pc' = "failed"
                /\ outcome' = plan
                /\ UNCHANGED <<batch_sizes, idx>>
           ELSE /\ batch_sizes' = plan.value
                /\ idx' = 1
                /\ IF LoopExhausted(1, plan.value, None)
                   THEN pc' = "done" /\ outcome' = Return(Chain(<<>>))
                   ELSE pc' = "loop" /\ outcome' = NotCalled
    /\ page_token' = None
    /\ search_results' = <<>>
    /\ UNCHANGED <<video_list_size, calls, responses, planVars, parseVars>>

\* a driver that swallows the failure of a fetch and goes on with the next batch
FetchRaisesSwallowed ==
    /\ pc = "loop"
    /\ calls' = Append(calls, [request |-> SearchRequest(batch_sizes[idx], page_token),
                               ended |-> "raised"])
    /\ idx' = idx + 1
    /\ IF LoopExhausted(idx + 1, batch_sizes, page_token)
       THEN pc' = "done" /\ outcome' = Return(Chain(search_results))
       ELSE pc' = "loop" /\ outcome' = NotCalled
    /\ UNCHANGED <<video_list_size, batch_sizes, page_token, search_results, responses,
                   planVars, parseVars>>

\* One pass of the loop body in which request.execute() raises: nothing in
\* search_videos or search_youtube catches it, so the call of search_youtube
\* ends with that exception.
FetchRaises ==
    /\ pc = "loop"
    /\ calls' = Append(calls, [request |-> SearchRequest(batch_sizes[idx], page_token),
                               ended |-> "raised"])
    /\ pc' = "failed"
    /\ outcome' = Raise("HttpError")
    /\ UNCHANGED <<video_list_size, batch_sizes, idx, page_token, search_results, responses,
                   planVars, parseVars>>

\* One pass of the loop body in which the provider answers: lines 140-145,
\* and line 148 when this was the last batch.
FetchReturns ==
    /\ pc = "loop"
    /\ \E count \in ItemCounts(batch_sizes[idx]), hasToken \in BOOLEAN :
        LET search_response == SearchResponse(count, hasToken)
            items   == search_response["items"]
            token   == NextPageToken(search_response)
            parsed  == [j \in 1..Len(items) |-> parse_youtube_response(items[j])]
            records == [j \in 1..Len(items) |-> parsed[j].value]
            results == Append(search_results, records)
        IN  /\ calls' = Append(calls,
                               [request |-> SearchRequest(batch_sizes[idx], page_token),
                                ended |-> "returned"])
            /\ responses' = Append(responses, search_response)
            /\ page_token' = token
            /\ IF \E j \in 1..Len(items) : parsed[j].kind = "raise"
               THEN /\ pc' = "failed"
                    /\ outcome' = Raise("AttributeError")
                    /\ UNCHANGED <<search_results, idx>>
               ELSE /\ search_results' = results
                    /\ idx' = idx + 1
                    /\ IF LoopExhausted(idx + 1, batch_sizes, token)
                       THEN pc' = "done" /\ outcome' = Return(Chain(results))
                       ELSE pc' = "loop" /\ outcome' = NotCalled
    /\ UNCHANGED <<video_list_size, batch_sizes, planVars, parseVars>>

Next == Begin \/ FetchReturns \/ FetchRaises

Spec == Init /\ [][Next]_vars

(***************************************************************************)
(* Properties of split_batches, checked under SpecPlan                     *)
(***************************************************************************)
\* The precondition of the planner: a non-negative total, a positive batch size.
PlanPrecondition == N >= 0 /\ X > 0

\* C1: for every non-negative N and positive X, split_batches(N, X) returns a
\* list whose elements sum to N, each of them greater than 0 and at most X.
C1_SumAndRange ==
    (planPc = "done" /\ PlanPrecondition) =>
        /\ planResult.kind = "return"
        /\ SumSeq(planResult.value) = N
        /\ \A i \in 1..Len(planResult.value) :
              planResult.value[i] > 0 /\ planResult.value[i] <= X

\* split_batches(251, 50) returned [50, 50, 50, 50, 50, 1].
C1_Witness ==
    /\ planPc = "done"
    /\ N = 251 /\ X = 50
    /\ planResult = Return(<<50, 50, 50, 50, 50, 1>>)

\* C2: for every non-negative N and positive X, split_batches(N, X) has
\* ceil(N / X) elements: floor(N / X) copies of X, then N mod X as the last
\* element only when N mod X > 0; split_batches(0, X) is empty and an exact
\* multiple of X gives no zero-sized batch.
C2_LengthAndShape ==
    (planPc = "done" /\ PlanPrecondition) =>
        /\ planResult.kind = "return"
        /\ LET plan == planResult.value
               q == N \div X
               r == N % X
           IN  /\ Len(plan) = (N + X - 1) \div X
               /\ \A i \in 1..q : plan[i] = X
               /\ r > 0 => Len(plan) = q + 1 /\ plan[q + 1] = r
               /\ r = 0 => Len(plan) = q
               /\ N = 0 => plan = <<>>

\* split_batches(250, 50) returned five batches of 50 and no sixth of 0.
C2_Witness ==
    /\ planPc = "done"
    /\ N = 250 /\ X = 50
    /\ planResult = Return(<<50, 50, 50, 50, 50>>)

\* C8: called with a negative total or a non-positive batch size, the planner
\* fails (with an error of the InvalidArgument kind) and returns no plan.  Any
\* exception is taken for that failure here.
C8_InvalidArgument ==
    (planPc = "done" /\ ~PlanPrecondition) => planResult.kind = "raise"

(***************************************************************************)
(* Properties of parse_youtube_response, checked under SpecParse           *)
(***************************************************************************)
\* The source value of record key k in a raw item: None when it is missing.
SourceValue(response, k) ==
    LET holder == IF k \in {"etag", "kind"} THEN Dict(response)
                  ELSE IF k = "videoId" THEN PyGet(response, "id", None)
                  ELSE PyGet(response, "snippet", None)
    IN  IF holder.t = "dict" THEN PyGet(holder.d, k, None) ELSE None

\* C7: the record holds a key exactly when the item's source value for it is
\* present and not null, and then holds that value; no key maps to null.
C7_KeysIffPresent ==
    (parsePc = "done" /\ parseResult.kind = "return") =>
        LET record == parseResult.value
        IN  /\ DOMAIN record \subseteq RecordKeys
            /\ \A k \in RecordKeys :
                  /\ k \in DOMAIN record <=> SourceValue(item, k) # None
                  /\ k \in DOMAIN record =>
                        record[k] = SourceValue(item, k) /\ record[k] # None

\* An item whose snippet has a title and no description was parsed: the record
\* has the title and no description key.
C7_Witness ==
    /\ parsePc = "done"
    /\ "snippet" \in DOMAIN item
    /\ item["snippet"].t = "dict"
    /\ "description" \notin DOMAIN item["snippet"].d
    /\ "title" \in DOMAIN item["snippet"].d
    /\ item["snippet"].d["title"] = Str("title", 0)
    /\ parseResult.kind = "return"
    /\ "description" \notin DOMAIN parseResult.value
    /\ parseResult.value["title"] = Str("title", 0)

\* An item lacks fields only: what it holds under id and under snippet is a dict.
LacksFieldsOnly(response) ==
    \A k \in {"id", "snippet"} : k \in DOMAIN response => response[k].t = "dict"

\* C9: parse_youtube_response returns a record, and does not raise, for every
\* item that lacks any subset of etag, kind, id, id.videoId, snippet and the
\* fields of snippet; the record is empty when all of them are missing.
C9_MissingFieldsTolerated ==
    (parsePc = "done" /\ LacksFieldsOnly(item)) =>
        /\ parseResult.kind = "return"
        /\ DOMAIN item = {} => parseResult.value = <<>>

\* The item with no field at all was parsed into the empty record.
C9_Witness ==
    /\ parsePc = "done"
    /\ DOMAIN item = {}
    /\ parseResult = Return(<<>>)

(***************************************************************************)
(* Properties of search_youtube, checked under Spec                        *)
(***************************************************************************)
\* The plan of the run, from the argument.
PlanOfRun == split_batches(video_list_size, MAX_YOUTUBE_API_RESULTS).value

\* The items of the i-th response, and the token it carried (None without one).
ItemsOf(i) == responses[i]["items"]

TokenOf(i) ==
    IF "nextPageToken" \in DOMAIN responses[i]
    THEN responses[i]["nextPageToken"]
    ELSE None

\* How many items the responses before the i-th held.
ItemsBefore(i) == SumSeq([k \in 1..(i - 1) |-> Len(ItemsOf(k))])

\* C3: the fetch calls of a run are the plan for (video_list_size, 50), one
\* call per planned size and in the plan's order, never a retry and never a
\* skip; a run that returns has made exactly as many calls as the plan has
\* sizes, whatever tokens the provider returned.
C3_OneFetchPerBatch ==
    /\ Len(calls) <= Len(PlanOfRun)
    /\ \A i \in 1..Len(calls) : calls[i].request.maxResults = PlanOfRun[i]
    /\ pc = "done" =>
          /\ Len(calls) = Len(PlanOfRun)
          /\ \A i \in 1..Len(calls) : calls[i].ended = "returned"

\* A run for 120 made its three calls for 50, 50 and 20 although the first
\* response carried no token.
C3_Witness ==
    /\ pc = "done"
    /\ video_list_size = 120
    /\ Len(calls) = 3
    /\ calls[1].request.maxResults = 50
    /\ calls[2].request.maxResults = 50
    /\ calls[3].request.maxResults = 20
    /\ TokenOf(1) = None

\* C4: the first fetch call is passed no token, and every later call exactly
\* the token the call before it returned, also when that call returned none.
C4_TokenThreading ==
    /\ \A i \in 1..Len(calls) :
          calls[i].request.pageToken = IF i = 1 THEN None ELSE TokenOf(i - 1)
    /\ Len(responses) > 0 /\ pc # "start" => page_token = TokenOf(Len(responses))

\* The first response carried no token and the second one did: the second call
\* was passed none, the third the token of the second response.
C4_Witness ==
    /\ Len(calls) = 3
    /\ TokenOf(1) = None
    /\ calls[1].request.pageToken = None
    /\ calls[2].request.pageToken = None
    /\ TokenOf(2) = Str("pageToken", 2)
    /\ calls[3].request.pageToken = Str("pageToken", 2)

\* C5: when every fetch succeeded, the list returned is the parsed items of
\* the responses in call order, each response's items in the order it gave
\* them: as long as all the items together, nothing dropped, doubled or moved.
C5_Concatenation ==
    pc = "done" =>
        /\ outcome.kind = "return"
        /\ Len(outcome.value) = ItemsBefore(Len(responses) + 1)
        /\ \A i \in 1..Len(responses) : \A j \in 1..Len(ItemsOf(i)) :
              outcome.value[ItemsBefore(i) + j]
                  = parse_youtube_response(ItemsOf(i)[j]).value

\* A run returned the 120 records of three responses of 50, 50 and 20 items.
C5_Witness ==
    /\ pc = "done"
    /\ Len(responses) = 3
    /\ Len(ItemsOf(1)) = 50 /\ Len(ItemsOf(2)) = 50 /\ Len(ItemsOf(3)) = 20
    /\ Len(outcome.value) = 120
    /\ outcome.value[51] = parse_youtube_response(ProviderItems[51]).value

\* C6: when a fetch call fails the run ends failed with that exception, the
\* failed call is the last call of the run, and the records of the earlier
\* responses are not returned.
C6_FailurePropagates ==
    (\E i \in 1..Len(calls) : calls[i].ended = "raised") =>
        /\ pc = "failed"
        /\ outcome = Raise("HttpError")
        /\ \A i \in 1..Len(calls) : calls[i].ended = "raised" <=> i = Len(calls)
        /\ ~ENABLED Next

\* The second call of a run failed after a first response of 50 items: the run
\* is failed and its caller got the exception, not the 50 records.
C6_Witness ==
    /\ pc = "failed"
    /\ Len(calls) = 2
    /\ calls[2].ended = "raised"
    /\ Len(search_results) = 1
    /\ Len(search_results[1]) = 50
    /\ outcome.kind = "raise"

\* No response held more items than its call asked for.
NoOverfullPage ==
    \A i \in 1..Len(responses) : Len(ItemsOf(i)) <= calls[i].request.maxResults

\* Every response held exactly as many items as its call asked for.
EveryPageFull ==
    \A i \in 1..Len(responses) : Len(ItemsOf(i)) = calls[i].request.maxResults

\* C10: when no response holds more items than were asked for, the run returns
\* at most video_list_size records, and exactly video_list_size when and only
\* when every response was a full page.
C10_CountBound ==
    (pc = "done" /\ NoOverfullPage) =>
        /\ Len(outcome.value) <= video_list_size
        /\ Len(outcome.value) = video_list_size <=> EveryPageFull

\* A run for 120 got full pages of 50, 50 and 20 and returned 120 records.
C10_Witness ==
    /\ pc = "done"
    /\ video_list_size = 120
    /\ Len(responses) = 3
    /\ EveryPageFull
    /\ Len(ItemsOf(3)) = 20
    /\ Len(outcome.value) = 120

====
